---- MODULE Spec2Model ----
(***************************************************************************)
(* A model of the MC protocol client of src/src/MCProtocol.ts: the frame   *)
(* builder and device-address codec, the stream reassembler, the response  *)
(* validator and the request correlator of class MCProtocol, together with *)
(* the sockets, timers and callers that drive them.                        *)
(*                                                                         *)
(* A Buffer is a sequence of bytes (0..255).  A device name is a sequence  *)
(* of one-character strings, so that the regular expression of             *)
(* makeDeviceData can be computed on it.                                   *)
(***************************************************************************)
EXTENDS Integers, Sequences, FiniteSets, TLC

(***************************************************************************)
(* Bounds of the model.                                                    *)
(***************************************************************************)
\* requests one MCProtocol object sends (the cap of requestCounter)
MaxReq == 2
\* sockets one MCProtocol object creates (calls of connect() that open one)
MaxSockets == 2
\* concurrent callers of the read/write operations
NumCallers == 2
\* addresses or entries of one batch
MaxBatch == 2
\* frames of the stream fed to the reassembler in SpecRx
MaxRxFrames == 2

(***************************************************************************)
(* Buffers.                                                                *)
(***************************************************************************)
\* Buffer.alloc(0)
EmptyBuffer == <<>>

\* buf.subarray(from, to), offsets counted from 0, `to` exclusive
Subarray(buf, from, to) == SubSeq(buf, from + 1, to)

\* buf.writeUIntLE(value, 0, width): `width` bytes, least significant first
RECURSIVE WriteUIntLE(_, _)
WriteUIntLE(value, width) ==
  IF width = 0 THEN <<>>
  ELSE <<value % 256>> \o WriteUIntLE(value \div 256, width - 1)

\* buf.readUInt16LE(offset)
ReadUInt16LE(buf, offset) == buf[offset + 1] + 256 * buf[offset + 2]

\* buf.readUInt16BE(offset)
ReadUInt16BE(buf, offset) == 256 * buf[offset + 1] + buf[offset + 2]

\* the 16 bits read as an unsigned number
ReadInt16LEUnsigned(buf, offset) == buf[offset + 1] + 256 * buf[offset + 2]

\* buf.readInt16LE(offset): the two's-complement reading of the 16 bits
ReadInt16LE(buf, offset) ==
  LET u == ReadUInt16LE(buf, offset)
  IN  IF u >= 32768 THEN u - 65536 ELSE u

\* the values writeUInt8/writeInt8, writeUInt16LE/writeInt16LE and
\* writeUInt32LE/writeInt32LE accept; any other value throws a RangeError
EncodeWidth(mode) ==
  CASE mode = "byte" -> 1
    [] mode = "short" -> 2
    [] mode = "long" -> 4

RECURSIVE Pow256(_)
Pow256(n) == IF n = 0 THEN 1 ELSE 256 * Pow256(n - 1)

\* \div rounds down, so the top byte of a `width`-byte value is this
TopByte(value, width) == value \div Pow256(width - 1)

EncodeInRange(value, mode, isSigned) ==
  LET top == TopByte(value, EncodeWidth(mode))
  IN  IF isSigned THEN -128 <= top /\ top < 128
      ELSE 0 <= value /\ top < 256

\* encodeValue(value, mode, isSigned) for a value in range: little-endian,
\* a negative value as its two's complement (\div rounds down and % is not
\* negative, so WriteUIntLE yields it)
encodeValue(value, mode, isSigned) == WriteUIntLE(value, EncodeWidth(mode))

(***************************************************************************)
(* Device address codec.                                                   *)
(***************************************************************************)
Digits == <<"0", "1", "2", "3", "4", "5", "6", "7", "8", "9">>

IsDigit(ch) == \E i \in 1..10 : Digits[i] = ch

\* address.toString(): the decimal digits of a non-negative integer
RECURSIVE NumberToString(_)
NumberToString(n) ==
  IF n < 10 THEN Digits[n + 1]
  ELSE NumberToString(n \div 10) \o Digits[(n % 10) + 1]

\* the characters of a device name joined into one string
RECURSIVE JoinChars(_)
JoinChars(chars) ==
  IF chars = <<>> THEN "" ELSE Head(chars) \o JoinChars(Tail(chars))

\* device.match(/\D+/): the first maximal run of non-digit characters,
\* <<>> when there is none
RECURSIVE NonDigitRun(_)
NonDigitRun(chars) ==
  IF chars = <<>> \/ IsDigit(Head(chars)) THEN <<>>
  ELSE <<Head(chars)>> \o NonDigitRun(Tail(chars))

RECURSIVE MatchNonDigits(_)
MatchNonDigits(chars) ==
  IF chars = <<>> THEN <<>>
  ELSE IF IsDigit(Head(chars)) THEN MatchNonDigits(Tail(chars))
  ELSE NonDigitRun(chars)

\* MCProtocol.DEVICE_CODES
DEVICE_CODES ==
  [ D |-> 168, R |-> 175, ZR |-> 176, M |-> 144, X |-> 156, Y |-> 157,
    B |-> 160, F |-> 147, V |-> 148, S |-> 152, SS |-> 201, SC |-> 198,
    SB |-> 161, DX |-> 162, DY |-> 163, T |-> 194, ST |-> 199, C |-> 197,
    TC |-> 192, TS |-> 193, TN |-> 194, CN |-> 197, CS |-> 196, CC |-> 195,
    W |-> 180, SW |-> 181, RD |-> 44, SD |-> 169, Z |-> 204 ]

\* getDeviceBase(deviceType)
hexDevices == {"X", "Y", "B", "W", "SB", "SW", "DX", "DY", "ZR"}

getDeviceBase(deviceType) == IF deviceType \in hexDevices THEN 16 ELSE 10

\* parseInt(address.toString(), base) for base 10 or 16: the decimal digits
\* of the address read as digits of the base
RECURSIVE ParseDigits(_, _)
ParseDigits(address, base) ==
  IF address < 10 THEN address
  ELSE base * ParseDigits(address \div 10, base) + (address % 10)

\* DEVICE_CODES is an object literal, so MCProtocol.DEVICE_CODES[deviceType]
\* also finds what the literal inherits from Object.prototype: for these
\* names the lookup yields a function or an object, not undefined
InheritedNames ==
  {"constructor", "hasOwnProperty", "isPrototypeOf", "propertyIsEnumerable",
   "toLocaleString", "toString", "valueOf", "__proto__"}

\* deviceCode === undefined
DeviceCodeUndefined(deviceType) ==
  deviceType \notin DOMAIN DEVICE_CODES /\ deviceType \notin InheritedNames

\* what the writes of the device code store: the code of the table, or, for
\* an inherited function or object, the number it converts to, NaN, which
\* passes the range check and is stored as 0
DeviceCodeWritten(deviceType) ==
  IF deviceType \in DOMAIN DEVICE_CODES THEN DEVICE_CODES[deviceType] ELSE 0

\* what makeDeviceData throws for the device, "none" when it builds the bytes
DeviceDataError(device) ==
  IF MatchNonDigits(device) = <<>> THEN "InvalidDevice"
  ELSE IF DeviceCodeUndefined(JoinChars(MatchNonDigits(device)))
  THEN "UnknownDeviceType"
  ELSE "none"

\* makeDeviceData(device, address) where it does not throw
makeDeviceData(plcType, device, address) ==
  LET deviceType == JoinChars(MatchNonDigits(device))
      deviceCode == DeviceCodeWritten(deviceType)
      deviceNum == ParseDigits(address, getDeviceBase(deviceType))
  IN  IF plcType = "iQ-R"
      THEN WriteUIntLE(deviceNum, 4) \o WriteUIntLE(deviceCode, 2)
      ELSE WriteUIntLE(deviceNum, 3) \o WriteUIntLE(deviceCode, 1)

(***************************************************************************)
(* Frame builder.                                                          *)
(***************************************************************************)
\* private readonly wordSize = 2
wordSize == 2

\* the length field holds the length of a Q-series read, whatever the body
RequestHeaderConstantLength(requestData) ==
  <<84, 0>>
    \o encodeValue(0, "short", FALSE)
    \o encodeValue(0, "short", FALSE)
    \o encodeValue(0, "byte", FALSE)
    \o encodeValue(255, "byte", FALSE)
    \o encodeValue(1023, "short", FALSE)
    \o encodeValue(0, "byte", FALSE)
    \o encodeValue(12, "short", FALSE)
    \o encodeValue(4, "short", FALSE)

\* the length field holds the length of the body without the timer
RequestHeaderWithoutTimer(requestData) ==
  <<84, 0>>
    \o encodeValue(0, "short", FALSE)
    \o encodeValue(0, "short", FALSE)
    \o encodeValue(0, "byte", FALSE)
    \o encodeValue(255, "byte", FALSE)
    \o encodeValue(1023, "short", FALSE)
    \o encodeValue(0, "byte", FALSE)
    \o encodeValue(Len(requestData), "short", FALSE)
    \o encodeValue(4, "short", FALSE)

\* the 4E header both builders put before the request data
RequestHeader(requestData) ==
  <<84, 0>>                                      \* writeUInt16BE(0x5400)
    \o encodeValue(0, "short", FALSE)            \* subheaderserial
    \o encodeValue(0, "short", FALSE)
    \o encodeValue(0, "byte", FALSE)             \* network
    \o encodeValue(255, "byte", FALSE)           \* pc
    \o encodeValue(1023, "short", FALSE)         \* dest_moduleio
    \o encodeValue(0, "byte", FALSE)             \* dest_modulesta
    \o encodeValue(wordSize + Len(requestData), "short", FALSE)
    \o encodeValue(4, "short", FALSE)            \* timer

Subcommand(plcType) == IF plcType = "iQ-R" THEN 2 ELSE 0

\* create4EReadFrame(device, address, count) where it does not throw
create4EReadFrame(plcType, device, address, count) ==
  LET requestData ==
        encodeValue(1025, "short", FALSE)        \* command 0x0401
          \o encodeValue(Subcommand(plcType), "short", FALSE)
          \o makeDeviceData(plcType, device, address)
          \o encodeValue(count, "short", FALSE)
  IN  RequestHeader(requestData) \o requestData

\* the values written most significant byte first
RECURSIVE EncodeValuesBigEndian(_)
EncodeValuesBigEndian(values) ==
  IF values = <<>> THEN <<>>
  ELSE LET word == encodeValue(Head(values), "short", TRUE)
       IN  <<word[2], word[1]>> \o EncodeValuesBigEndian(Tail(values))

\* the loop of create4EWriteFrame over the values
RECURSIVE EncodeValues(_)
EncodeValues(values) ==
  IF values = <<>> THEN <<>>
  ELSE encodeValue(Head(values), "short", TRUE) \o EncodeValues(Tail(values))

\* create4EWriteFrame(device, address, values) where it does not throw
create4EWriteFrame(plcType, device, address, values) ==
  LET requestData ==
        encodeValue(5121, "short", FALSE)        \* command 0x1401
          \o encodeValue(Subcommand(plcType), "short", FALSE)
          \o makeDeviceData(plcType, device, address)
          \o encodeValue(Len(values), "short", FALSE)
          \o EncodeValues(values)
  IN  RequestHeader(requestData) \o requestData

(***************************************************************************)
(* Errors and promises.  An MCProtocolError is modelled by its kind (what  *)
(* its message says) and its plcErrorCode field; a request's promise by    *)
(* the record it was settled with.                                         *)
(***************************************************************************)
\* the value of an optional constructor parameter that is not passed
Undefined == -1

MCProtocolError(kind, plcErrorCode) ==
  [kind |-> kind, plcErrorCode |-> plcErrorCode, response |-> <<>>]

NoError == MCProtocolError("none", Undefined)

\* a promise neither resolved nor rejected
Unsettled == [kind |-> "unsettled", plcErrorCode |-> Undefined, response |-> <<>>]

\* the value resolve(response) settles a promise with
Resolved(response) ==
  [kind |-> "resolved", plcErrorCode |-> Undefined, response |-> response]

\* a promise keeps the first value it is settled with
SettlePromise(old, new) == IF old = Unsettled THEN new ELSE old

\* a call of request id's resolve or reject continuation with `result`:
\* st.calls counts the calls, st.outcome is the promise
Invoke(st, id, result) ==
  [st EXCEPT !.calls[id] = @ + 1,
             !.outcome[id] = SettlePromise(@, result)]

(***************************************************************************)
(* Response validator and decoder.                                         *)
(***************************************************************************)
\* the response subheader validateResponse expects, 0xd400
ResponseSubheader == 54272

\* the least length of a response that validateResponse reads a status from
StatusEnd == 15

\* the response is not checked for a status code
validateResponseIgnoresStatus(response) ==
  IF ReadUInt16BE(response, 0) # ResponseSubheader
  THEN MCProtocolError("InvalidSubheader", Undefined)
  ELSE NoError

\* validateResponse(response): the error it throws, NoError when it returns
validateResponse(response) ==
  LET subheader == ReadUInt16BE(response, 0)
  IN  IF subheader # ResponseSubheader
      THEN MCProtocolError("InvalidSubheader", Undefined)
      ELSE IF Len(response) >= StatusEnd /\ ReadUInt16LE(response, 13) # 0
      THEN MCProtocolError("PlcError", ReadUInt16LE(response, 13))
      ELSE NoError

\* const dataStart = 15
dataStart == 15

\* the loop of parseReadResponse from offset i
RECURSIVE ParseValuesFrom(_, _)
ParseValuesFrom(response, i) ==
  IF i >= Len(response) THEN <<>>
  ELSE (IF i + 1 < Len(response) THEN <<ReadInt16LE(response, i)>> ELSE <<>>)
         \o ParseValuesFrom(response, i + 2)

\* parseReadResponse(response) where validateResponse does not throw
parseReadResponse(response) == ParseValuesFrom(response, dataStart)

(***************************************************************************)
(* Request correlator and stream reassembler, as functions of the part of  *)
(* the object they read and write: a record st with the fields             *)
(*   responseBuffer, pendingRequests  the fields of the object;            *)
(*   timers     the ids of the requests whose timeout timer is armed;      *)
(*   outcome, calls   the promises of the requests;                        *)
(*   bufferTag  for each byte of responseBuffer, the request the peer      *)
(*              sent it in answer to (history);                            *)
(*   delivered  for each request, the frame processResponse delivered to   *)
(*              it and the request that frame answers (history);           *)
(*   frames     the frames extracted so far (history).                     *)
(***************************************************************************)
\* pendingRequests.delete(requestId): a Map keeps insertion order
MapDelete(pending, requestId) == SelectSeq(pending, LAMBDA r : r # requestId)

NotDelivered == [answers |-> 0, frame |-> <<>>]

\* the loop of cleanup stops after the first pending request
RejectAllOnlyFirst(st, pending) ==
  IF pending = <<>> THEN st
  ELSE Invoke([st EXCEPT !.timers = @ \ {Head(pending)}], Head(pending),
              MCProtocolError("ConnectionClosed", Undefined))

\* the loop of cleanup: every pending request is rejected
RECURSIVE RejectAll(_, _)
RejectAll(st, pending) ==
  IF pending = <<>> THEN st
  ELSE RejectAll(
         Invoke([st EXCEPT !.timers = @ \ {Head(pending)}], Head(pending),
                MCProtocolError("ConnectionClosed", Undefined)),
         Tail(pending))

\* cleanup(), but for isConnected = false
cleanup(st) ==
  [RejectAll(st, st.pendingRequests) EXCEPT
     !.responseBuffer = EmptyBuffer,
     !.bufferTag = <<>>,
     !.pendingRequests = <<>>]

\* a response that fails validation is taken for the end of the connection
processResponseClosesOnError(st, response, tag) ==
  IF Len(st.pendingRequests) = 0 THEN st
  ELSE
    LET requestId == Head(st.pendingRequests)
        popped == [st EXCEPT
                     !.pendingRequests = MapDelete(@, requestId),
                     !.timers = @ \ {requestId},
                     !.delivered[requestId] =
                        [answers |-> tag, frame |-> response]]
        error == validateResponse(response)
    IN  IF error = NoError
        THEN Invoke(popped, requestId, Resolved(response))
        ELSE cleanup(Invoke(popped, requestId, error))

\* the timer of a delivered request stays armed
ClearDeliveredTimerNever(timers, requestId) == timers

\* clearTimeout(request.timeout) in processResponse
ClearDeliveredTimer(timers, requestId) == timers \ {requestId}

\* processResponse(response); tag is the request the frame answers
processResponse(st, response, tag) ==
  IF Len(st.pendingRequests) = 0 THEN st
  ELSE
    LET requestId == Head(st.pendingRequests)
        popped == [st EXCEPT
                     !.pendingRequests = MapDelete(@, requestId),
                     !.timers = ClearDeliveredTimer(@, requestId),
                     !.delivered[requestId] =
                        [answers |-> tag, frame |-> response]]
        error == validateResponse(response)
    IN  IF error = NoError
        THEN Invoke(popped, requestId, Resolved(response))
        ELSE Invoke(popped, requestId, error)

\* the bytes handleResponse needs to read the data length
HeaderLength == 13

\* the data length read where validateResponse reads it, at offset 9
TotalLengthAtOffset9(buffer) == HeaderLength + ReadUInt16LE(buffer, 9)

\* const totalLength = 13 + dataLength
TotalLength(buffer) == HeaderLength + ReadUInt16LE(buffer, 11)

\* the while loop of handleResponse
RECURSIVE HandleLoop(_)
HandleLoop(st) ==
  IF Len(st.responseBuffer) >= HeaderLength
  THEN
    LET totalLength == TotalLength(st.responseBuffer)
    IN  IF Len(st.responseBuffer) >= totalLength
        THEN
          LET response == Subarray(st.responseBuffer, 0, totalLength)
              tag == st.bufferTag[1]
              rest == [st EXCEPT
                         !.responseBuffer =
                            Subarray(@, totalLength, Len(st.responseBuffer)),
                         !.bufferTag =
                            Subarray(@, totalLength, Len(st.bufferTag)),
                         !.frames = Append(@, response)]
          IN  HandleLoop(processResponse(rest, response, tag))
        ELSE st
  ELSE st

\* the chunk replaces the buffer instead of being appended to it
handleResponseDropsBuffer(st, data, tags) ==
  HandleLoop([st EXCEPT !.responseBuffer = data, !.bufferTag = tags])

\* a frame that completes while no request is pending stays in the buffer
handleResponseKeepsUnclaimed(st, data, tags) ==
  IF st.pendingRequests = <<>>
  THEN [st EXCEPT !.responseBuffer = @ \o data, !.bufferTag = @ \o tags]
  ELSE HandleLoop([st EXCEPT !.responseBuffer = @ \o data,
                             !.bufferTag = @ \o tags])

\* handleResponse(data); tags are the requests the bytes of data answer
handleResponse(st, data, tags) ==
  HandleLoop([st EXCEPT !.responseBuffer = @ \o data,
                        !.bufferTag = @ \o tags])

(***************************************************************************)
(* The state of one MCProtocol object and of its environment.              *)
(***************************************************************************)
VARIABLES
  plcType,          \* options.plcType
  frameOption,      \* options.frame
  isConnected,      \* this.isConnected
  socket,           \* this.socket: 0 for null, else the socket's number
  responseBuffer,   \* this.responseBuffer
  pendingRequests,  \* this.pendingRequests: its keys in insertion order
  requestCounter,   \* this.requestCounter
  timers,           \* the requests whose timeout timer is armed
  connectTimers,    \* the sockets whose connectTimeout timer is armed
  outcome,          \* for each request, what its promise is settled with
  calls,            \* for each request, the calls of its resolve and reject
  sockState,        \* for each socket: unused, connecting, open, errored
                    \* ('error' is due), destroyed ('close' is due), closed
  wire,             \* for each socket, the requests written to it that the
                    \* peer has not answered
  writeCb,          \* the requests whose socket.write callback is due
  inflight,         \* for each socket, the peer's bytes not yet delivered
  inflightTag,      \* for each byte of inflight, the request it answers
  callers,          \* the callers of the read and write operations
  bufferTag,        \* history: see the correlator
  delivered,        \* history: see the correlator
  written,          \* history: the frame written for each request
  rx,               \* the stream fed to the reassembler in SpecRx
  op                \* the last call of a function of the codec, the builder
                    \* or the validator in SpecFn

vars ==
  <<plcType, frameOption, isConnected, socket, responseBuffer,
    pendingRequests, requestCounter, timers, connectTimers, outcome, calls,
    sockState, wire, writeCb, inflight, inflightTag, callers, bufferTag,
    delivered, written, rx, op>>

\* this.options, as far as the model reads it
options == <<plcType, frameOption>>

Requests == 1..MaxReq
Sockets == 1..MaxSockets
Callers == 1..NumCallers

\* plcType?: 'Q' | 'iQ-R' | 'iQ-L' | 'L' | 'QnA': the two layouts
PlcTypes == {"Q", "iQ-R"}

\* plcType: 'Q' in the constructor's defaults
DefaultPlcType == "Q"

\* frame?: '3E' | '4E'
FrameVariants == {"3E", "4E"}

\* frame: '4E' in the constructor's defaults
DefaultFrame == "4E"

\* the part of the state the correlator and the reassembler work on
State ==
  [responseBuffer |-> responseBuffer, pendingRequests |-> pendingRequests,
   timers |-> timers, outcome |-> outcome, calls |-> calls,
   bufferTag |-> bufferTag, delivered |-> delivered, frames |-> <<>>]

Becomes(st) ==
  /\ responseBuffer' = st.responseBuffer
  /\ pendingRequests' = st.pendingRequests
  /\ timers' = st.timers
  /\ outcome' = st.outcome
  /\ calls' = st.calls
  /\ bufferTag' = st.bufferTag
  /\ delivered' = st.delivered

correlator ==
  <<responseBuffer, pendingRequests, timers, outcome, calls, bufferTag,
    delivered>>

\* a socket that can still connect, read or write
Live(state) == state \in {"connecting", "open"}

\* socket.destroy(): 'close' is then due; a socket already destroyed,
\* closed or about to emit 'error' stays as it is
Destroy(states, s) ==
  IF s # 0 /\ Live(states[s]) THEN [states EXCEPT ![s] = "destroyed"]
  ELSE states

\* a socket that is no longer open delivers no more data
OpenOnly(streams, states) ==
  [s \in Sockets |-> IF states[s] = "open" THEN streams[s] ELSE <<>>]

\* what is written to a socket that is no longer live is never answered;
\* it stays on the wire while its write callback is due
LiveOnly(wires, states, due) ==
  [s \in Sockets |->
     IF Live(states[s]) THEN wires[s]
     ELSE SelectSeq(wires[s], LAMBDA r : r \in due)]

\* the sockets change state: the streams follow
SocketsBecome(states, due) ==
  /\ sockState' = states
  /\ inflight' = OpenOnly(inflight, states)
  /\ inflightTag' = OpenOnly(inflightTag, states)
  /\ wire' = LiveOnly(wire, states, due)
  /\ writeCb' = due

network == <<sockState, inflight, inflightTag, wire, writeCb>>

\* a caller's continuation is queued: the microtask runs before any other
\* callback or call
MicrotaskPending ==
  \E c \in Callers :
    callers[c].pc = "await" /\ outcome[callers[c].req] # Unsettled

NumSockets == Cardinality({s \in Sockets : sockState[s] # "unused"})

EmptyResult == [k \in {} |-> 0]

\* a caller: pc is idle, await (in sendRequest's promise), resolved or
\* rejected; kind is read or write; single tells readRegister and
\* writeRegister from the batch operations, and arg is then the item made
\* of their arguments; items are the items the batch has still to do, the first being
\* the one whose request req it awaits; results is the batch's results;
\* value is <<v>> when readRegister returned v; error is what was thrown
IdleCaller ==
  [pc |-> "idle", kind |-> "none", single |-> FALSE, arg |-> <<>>,
   items |-> <<>>, req |-> 0, results |-> EmptyResult, value |-> <<>>,
   error |-> NoError]

RxIdle ==
  [stream |-> <<>>, fed |-> <<>>, frames |-> <<>>, out |-> <<>>,
   clean |-> TRUE]

\* a call of a function: its name, its arguments, and what it returned
\* (bytes or values) or threw (error)
NoCall ==
  [fn |-> "none", device |-> <<>>, address |-> 0, count |-> 0,
   values |-> <<>>, response |-> <<>>, bytes |-> <<>>, decoded |-> <<>>,
   error |-> "none", plcErrorCode |-> Undefined]

Init ==
  /\ plcType = DefaultPlcType
  /\ frameOption = DefaultFrame
  /\ op = NoCall
  /\ isConnected = FALSE
  /\ socket = 0
  /\ responseBuffer = EmptyBuffer
  /\ pendingRequests = <<>>
  /\ requestCounter = 0
  /\ timers = {}
  /\ connectTimers = {}
  /\ outcome = [r \in Requests |-> Unsettled]
  /\ calls = [r \in Requests |-> 0]
  /\ sockState = [s \in Sockets |-> "unused"]
  /\ wire = [s \in Sockets |-> <<>>]
  /\ writeCb = {}
  /\ inflight = [s \in Sockets |-> <<>>]
  /\ inflightTag = [s \in Sockets |-> <<>>]
  /\ callers = [c \in Callers |-> IdleCaller]
  /\ bufferTag = <<>>
  /\ delivered = [r \in Requests |-> NotDelivered]
  /\ written = [r \in Requests |-> <<>>]
  /\ rx = RxIdle

(***************************************************************************)
(* connect, disconnect and the handlers of a socket's events.              *)
(***************************************************************************)
\* connect(): a new socket, unless the object is connected
Connect ==
  /\ ~MicrotaskPending
  /\ IF isConnected THEN UNCHANGED vars
     ELSE /\ NumSockets < MaxSockets
          /\ socket' = NumSockets + 1
          /\ sockState' = [sockState EXCEPT ![NumSockets + 1] = "connecting"]
          /\ connectTimers' = connectTimers \cup {NumSockets + 1}
          /\ UNCHANGED <<options, op, isConnected, requestCounter, callers,
                         written, rx, correlator, wire, writeCb, inflight,
                         inflightTag>>

\* the callback of socket.connect
ConnectCallback(s) ==
  /\ ~MicrotaskPending
  /\ sockState[s] = "connecting"
  /\ connectTimers' = connectTimers \ {s}
  /\ isConnected' = TRUE
  /\ sockState' = [sockState EXCEPT ![s] = "open"]
  /\ UNCHANGED <<options, op, socket, requestCounter, callers, written, rx,
                 correlator, wire, writeCb, inflight, inflightTag>>

\* the connectTimeout timer of socket s fires: this.socket?.destroy()
ConnectTimeout(s) ==
  /\ ~MicrotaskPending
  /\ s \in connectTimers
  /\ connectTimers' = connectTimers \ {s}
  /\ SocketsBecome(Destroy(sockState, socket), writeCb)
  /\ UNCHANGED <<options, op, isConnected, socket, requestCounter, callers,
                 written, rx, correlator>>

\* the 'error' handler of socket s; the socket is then destroyed
SocketError(s) ==
  /\ ~MicrotaskPending
  /\ sockState[s] \in {"connecting", "open", "errored"}
  /\ connectTimers' = connectTimers \ {s}
  /\ isConnected' = FALSE
  /\ SocketsBecome([sockState EXCEPT ![s] = "destroyed"], writeCb)
  /\ UNCHANGED <<options, op, socket, requestCounter, callers, written, rx,
                 correlator>>

\* the 'close' handler of socket s: after destroy, or when the peer closes
SocketClose(s) ==
  /\ ~MicrotaskPending
  /\ sockState[s] \in {"open", "destroyed"}
  /\ isConnected' = FALSE
  /\ Becomes(cleanup(State))
  /\ SocketsBecome([sockState EXCEPT ![s] = "closed"], writeCb)
  /\ UNCHANGED <<options, op, socket, requestCounter, connectTimers, callers,
                 written, rx>>

\* disconnect()
Disconnect ==
  /\ ~MicrotaskPending
  /\ IF socket = 0 \/ ~isConnected THEN UNCHANGED vars
     ELSE /\ SocketsBecome(Destroy(sockState, socket), writeCb)
          /\ isConnected' = FALSE
          /\ Becomes(cleanup(State))
          /\ UNCHANGED <<options, op, socket, requestCounter, connectTimers,
                         callers, written, rx>>

(***************************************************************************)
(* sendRequest and the batch operations.                                   *)
(***************************************************************************)
\* the devices, addresses, counts and values the callers pass
DeviceNames == {<<"D">>, <<"Q">>}
Addresses == {100}
Counts == {1}
Values == {-1}

\* the value writeRegister is passed: the least of the signed 16-bit range,
\* whose two bytes differ
RegisterValues == {-32768}

\* the devices readRegister is passed in SpecShort: those of the batches
\* and a name the table inherits
RegisterDevices ==
  DeviceNames \cup {<<"c", "o", "n", "s", "t", "r", "u", "c", "t", "o", "r">>}

ReadItems ==
  {[device |-> d, address |-> a, count |-> n] :
     d \in DeviceNames, a \in Addresses, n \in Counts}

WriteItems ==
  {[device |-> d, address |-> a, value |-> v] :
     d \in DeviceNames, a \in Addresses, v \in Values}

\* the lists of two to MaxBatch items; a list of one item is what
\* readRegister and writeRegister pass
Batches(items) == UNION {[1..n -> items] : n \in 2..MaxBatch}

\* addr.count || 1
ReadCount(item) == IF item.count = 0 THEN 1 ELSE item.count

\* the largest device number the layout of the series holds
DeviceNumInRange(series, deviceNum) ==
  TopByte(deviceNum, IF series = "iQ-R" THEN 4 ELSE 3) < 256

\* what building the frame of an item throws, "none" when it is built
FrameError(series, kind, item) ==
  IF DeviceDataError(item.device) # "none" THEN DeviceDataError(item.device)
  ELSE IF ~DeviceNumInRange(series,
            ParseDigits(item.address,
                        getDeviceBase(JoinChars(MatchNonDigits(item.device)))))
  THEN "RangeError"
  ELSE IF kind = "read" /\ ~EncodeInRange(ReadCount(item), "short", FALSE)
  THEN "RangeError"
  ELSE IF kind = "write" /\ ~EncodeInRange(item.value, "short", TRUE)
  THEN "RangeError"
  ELSE "none"

\* the frame batchReadWordUnits or batchWriteWordUnits builds for an item
ItemFrame(series, kind, item) ==
  IF kind = "read"
  THEN create4EReadFrame(series, item.device, item.address, ReadCount(item))
  ELSE create4EWriteFrame(series, item.device, item.address, <<item.value>>)

\* getIsConnected()
getIsConnected == isConnected /\ socket # 0

\* the connected flag is not looked at
NotConnectedLooksAtSocketOnly == socket = 0

\* if (!this.socket || !this.isConnected), in sendRequest and in the batch
\* operations
NotConnected == socket = 0 \/ ~isConnected

\* no timer is armed
ArmTimerNever(armed, requestId) == armed

\* const timeout = setTimeout(...) in sendRequest
ArmTimer(armed, requestId) == armed \cup {requestId}

\* this.pendingRequests.set(requestId, ...)
MapSet(pending, requestId) ==
  IF \E i \in 1..Len(pending) : pending[i] = requestId THEN pending
  ELSE Append(pending, requestId)

\* sendRequest(frame) when connected: the request is registered and the
\* frame written to this.socket
sendRequest(frame) ==
  LET requestId == requestCounter + 1
  IN  /\ requestCounter' = requestId
      /\ timers' = ArmTimer(timers, requestId)
      /\ pendingRequests' = MapSet(pendingRequests, requestId)
      /\ wire' = IF Live(sockState[socket])
                 THEN [wire EXCEPT ![socket] = Append(@, requestId)]
                 ELSE wire
      /\ writeCb' = writeCb \cup {requestId}
      /\ written' = [written EXCEPT ![requestId] = frame]

sending == <<requestCounter, timers, pendingRequests, wire, writeCb, written>>

\* the batch operation throws: its items and results are gone
Rejected(me, error) ==
  [me EXCEPT !.pc = "rejected", !.error = error, !.items = <<>>,
             !.results = EmptyResult]

\* `${device}${address + i}`
ResultKey(item, i) ==
  JoinChars(item.device) \o NumberToString(item.address + i)

\* the batch operation returns; readRegister then looks its key up in the
\* results and returns the value or throws
Returned(me) ==
  IF me.single /\ me.kind = "read"
  THEN IF ResultKey(me.arg, 0) \in DOMAIN me.results
       THEN [me EXCEPT !.pc = "resolved",
                       !.value = <<me.results[ResultKey(me.arg, 0)]>>]
       ELSE Rejected(me, MCProtocolError("NoData", Undefined))
  ELSE [me EXCEPT !.pc = "resolved"]

\* the requests the batches under way have still to send
Reserved ==
  LET left(c) == IF callers[c].pc = "await" THEN Len(callers[c].items) - 1
                 ELSE 0
      sum[n \in 0..NumCallers] == IF n = 0 THEN 0 ELSE sum[n - 1] + left(n)
  IN  sum[NumCallers]

\* one turn of the for loop of a batch operation, `me` being the caller
\* with the items still to do: the batch returns, throws, or awaits the
\* request of its next item
Iterate(c, me) ==
  IF me.items = <<>>
  THEN /\ callers' = [callers EXCEPT ![c] = Returned(me)]
       /\ UNCHANGED sending
  ELSE
    LET item == Head(me.items)
        error == FrameError(plcType, me.kind, item)
    IN  IF error # "none"
        THEN /\ callers' = [callers EXCEPT
                              ![c] = Rejected(me, MCProtocolError(error, Undefined))]
             /\ UNCHANGED sending
        ELSE IF NotConnected
        THEN /\ callers' = [callers EXCEPT
                              ![c] = Rejected(me, MCProtocolError("NotConnected", Undefined))]
             /\ UNCHANGED sending
        ELSE /\ callers' = [callers EXCEPT
                              ![c] = [me EXCEPT !.pc = "await",
                                                !.req = requestCounter + 1]]
             /\ sendRequest(ItemFrame(plcType, me.kind, item))

\* batchReadWordUnits(items) or batchWriteWordUnits(items) is called, up to
\* its first await
Start(c, kind, single, items) ==
  /\ ~MicrotaskPending
  /\ callers[c].pc = "idle"
  /\ requestCounter + Reserved + Len(items) <= MaxReq
  /\ LET me == [IdleCaller EXCEPT
                  !.kind = kind, !.single = single, !.items = items,
                  !.arg = IF single THEN items[1] ELSE <<>>]
     IN  IF NotConnected
         THEN /\ callers' = [callers EXCEPT
                               ![c] = Rejected(me, MCProtocolError("NotConnected", Undefined))]
              /\ UNCHANGED sending
         ELSE Iterate(c, me)
  /\ UNCHANGED <<options, op, isConnected, socket, responseBuffer, connectTimers,
                 outcome, calls, sockState, inflight, inflightTag, bufferTag,
                 delivered, rx>>

\* batchReadWordUnits(items)
BatchRead(c) == \E items \in Batches(ReadItems) : Start(c, "read", FALSE, items)

\* batchWriteWordUnits(items)
BatchWrite(c) ==
  \E items \in Batches(WriteItems) : Start(c, "write", FALSE, items)

\* readRegister(device, address): batchReadWordUnits([{ device, address }]),
\* the count being undefined
ReadRegisterOf(c, devices) ==
  \E d \in devices, a \in Addresses :
    Start(c, "read", TRUE, <<[device |-> d, address |-> a, count |-> 0]>>)

ReadRegister(c) == ReadRegisterOf(c, DeviceNames)

\* writeRegister(device, address, value)
WriteRegister(c) ==
  \E d \in DeviceNames, a \in Addresses, v \in RegisterValues :
    Start(c, "write", TRUE, <<[device |-> d, address |-> a, value |-> v]>>)

\* the loop storing the values of one response in results
StoreValues(results, item, values) ==
  LET new == [k \in {ResultKey(item, i - 1) : i \in 1..Len(values)} |->
                values[CHOOSE i \in 1..Len(values) : ResultKey(item, i - 1) = k]]
  IN  new @@ results

\* a batch that sends the frame of its entry again when the request was
\* rejected
ResumeRetries(c) ==
  /\ callers[c].pc = "await"
  /\ outcome[callers[c].req] # Unsettled
  /\ LET me == callers[c]
         result == outcome[me.req]
         item == Head(me.items)
     IN  IF result.kind # "resolved"
         THEN IF requestCounter + Reserved + 1 <= MaxReq /\ ~NotConnected
              THEN /\ callers' = [callers EXCEPT ![c].req = requestCounter + 1]
                   /\ sendRequest(ItemFrame(plcType, me.kind, item))
              ELSE /\ callers' = [callers EXCEPT ![c] = Rejected(me, result)]
                   /\ UNCHANGED sending
         ELSE IF me.kind = "read" /\ validateResponse(result.response) # NoError
         THEN /\ callers' = [callers EXCEPT
                               ![c] = Rejected(me, validateResponse(result.response))]
              /\ UNCHANGED sending
         ELSE Iterate(c,
                [me EXCEPT
                   !.items = Tail(@),
                   !.results =
                      IF me.kind = "read"
                      THEN StoreValues(@, item, parseReadResponse(result.response))
                      ELSE @])
  /\ UNCHANGED <<options, op, isConnected, socket, responseBuffer, connectTimers,
                 outcome, calls, sockState, inflight, inflightTag, bufferTag,
                 delivered, rx>>

\* the batch operation of caller c goes on after its await: it throws what
\* the request was rejected with, or takes the response and turns to its
\* next item
Resume(c) ==
  /\ callers[c].pc = "await"
  /\ outcome[callers[c].req] # Unsettled
  /\ LET me == callers[c]
         result == outcome[me.req]
         item == Head(me.items)
     IN  IF result.kind # "resolved"
         THEN /\ callers' = [callers EXCEPT ![c] = Rejected(me, result)]
              /\ UNCHANGED sending
         ELSE IF me.kind = "read" /\ validateResponse(result.response) # NoError
         THEN /\ callers' = [callers EXCEPT
                               ![c] = Rejected(me, validateResponse(result.response))]
              /\ UNCHANGED sending
         ELSE Iterate(c,
                [me EXCEPT
                   !.items = Tail(@),
                   !.results =
                      IF me.kind = "read"
                      THEN StoreValues(@, item, parseReadResponse(result.response))
                      ELSE @])
  /\ UNCHANGED <<options, op, isConnected, socket, responseBuffer, connectTimers,
                 outcome, calls, sockState, inflight, inflightTag, bufferTag,
                 delivered, rx>>

(***************************************************************************)
(* The callbacks of a request: its timer and its write.                    *)
(***************************************************************************)
\* the timer of request id drops every pending request
TimerFiresClearsAll(st, id) ==
  Invoke([st EXCEPT !.pendingRequests = <<>>, !.timers = @ \ {id}],
         id, MCProtocolError("RequestTimeout", Undefined))

\* the timer of request id fires
TimerFires(st, id) ==
  Invoke([st EXCEPT !.pendingRequests = MapDelete(@, id),
                    !.timers = @ \ {id}],
         id, MCProtocolError("RequestTimeout", Undefined))

Timeout(id) ==
  /\ ~MicrotaskPending
  /\ id \in timers
  /\ Becomes(TimerFires(State, id))
  /\ UNCHANGED <<options, op, isConnected, socket, requestCounter, connectTimers,
                 callers, written, rx, network>>

\* the callback of socket.write is called with an error
WriteFails(st, id) ==
  Invoke([st EXCEPT !.pendingRequests = MapDelete(@, id),
                    !.timers = @ \ {id}],
         id, MCProtocolError("WriteError", Undefined))

\* the socket request id was written to, 0 when it was not live then
WrittenTo(id) ==
  IF \E s \in Sockets : \E i \in 1..Len(wire[s]) : wire[s][i] = id
  THEN CHOOSE s \in Sockets : \E i \in 1..Len(wire[s]) : wire[s][i] = id
  ELSE 0

\* the first request written to socket s whose write callback is due
FirstDue(s) ==
  LET due == SelectSeq(wire[s], LAMBDA r : r \in writeCb)
  IN  IF due = <<>> THEN 0 ELSE Head(due)

\* the callback of the socket.write of request id: without an error once the
\* frame has left an open socket, in the order of the writes; with an error
\* when the write failed, and the frame does not reach the peer
WriteCallback(id, failed) ==
  /\ ~MicrotaskPending
  /\ id \in writeCb
  /\ IF failed
     THEN /\ Becomes(WriteFails(State, id))
          /\ SocketsBecome(
               IF WrittenTo(id) # 0 /\ Live(sockState[WrittenTo(id)])
               THEN [sockState EXCEPT ![WrittenTo(id)] = "errored"]
               ELSE sockState,
               writeCb \ {id})
     ELSE /\ WrittenTo(id) # 0
          /\ sockState[WrittenTo(id)] = "open"
          /\ FirstDue(WrittenTo(id)) = id
          /\ writeCb' = writeCb \ {id}
          /\ UNCHANGED <<correlator, sockState, inflight, inflightTag, wire>>
  /\ UNCHANGED <<options, op, isConnected, socket, requestCounter, connectTimers,
                 callers, written, rx>>

(***************************************************************************)
(* The peer and the data it sends.                                         *)
(***************************************************************************)
\* a response frame: subheader, serial, reserved, network, pc, module io,
\* module station, the length of what follows, and what follows (the end
\* code and the data)
MkResponse(subheader, body) ==
  WriteUIntLE(subheader \div 256, 1) \o WriteUIntLE(subheader % 256, 1)
    \o <<0, 0, 0, 0, 0, 255, 255, 3, 0>>
    \o WriteUIntLE(Len(body), 2) \o body

\* end code 0 and the words 12345 and -2
GoodResponse == MkResponse(ResponseSubheader, <<0, 0, 57, 48, 254, 255>>)

\* end code 0x4031 and no data
PlcErrorResponse == MkResponse(ResponseSubheader, <<49, 64>>)

\* end code 0 under the subheader of a request, 0x5400
BadSubheaderResponse == MkResponse(21504, <<0, 0>>)

\* the frames the peer answers a request with
PeerFrames == {GoodResponse, PlcErrorResponse, BadSubheaderResponse}

\* complete frames of 13 and 14 bytes under the response subheader: data
\* length 0 and 1, too short to hold the end code
ShortResponses ==
  {MkResponse(ResponseSubheader, <<>>), MkResponse(ResponseSubheader, <<0>>)}

\* the peer answers the oldest request it has received, once
PeerRespond(s, frame) ==
  /\ ~MicrotaskPending
  /\ sockState[s] = "open"
  /\ wire[s] # <<>>
  /\ Head(wire[s]) \notin writeCb
  /\ wire' = [wire EXCEPT ![s] = Tail(@)]
  /\ inflight' = [inflight EXCEPT ![s] = @ \o frame]
  /\ inflightTag' = [inflightTag EXCEPT
                       ![s] = @ \o [i \in 1..Len(frame) |-> Head(wire[s])]]
  /\ UNCHANGED <<options, op, isConnected, socket, requestCounter, connectTimers,
                 callers, written, rx, correlator, sockState, writeCb>>

\* the lengths of the chunks a socket delivers of the len bytes it holds: a
\* header and a byte, or all of them (SpecRx feeds chunks of every length)
ChunkSizes(len) == {n \in 1..len : n \in {HeaderLength + 1, len}}

\* the 'data' handler of socket s with the next n bytes of the peer
Data(s, n) ==
  /\ ~MicrotaskPending
  /\ sockState[s] = "open"
  /\ n \in ChunkSizes(Len(inflight[s]))
  /\ Becomes(handleResponse(State, Subarray(inflight[s], 0, n),
                            Subarray(inflightTag[s], 0, n)))
  /\ inflight' = [inflight EXCEPT ![s] = Subarray(@, n, Len(inflight[s]))]
  /\ inflightTag' = [inflightTag EXCEPT
                       ![s] = Subarray(@, n, Len(inflightTag[s]))]
  /\ UNCHANGED <<options, op, isConnected, socket, requestCounter, connectTimers,
                 callers, written, rx, sockState, wire, writeCb>>

Next ==
  \/ Connect
  \/ Disconnect
  \/ \E s \in Sockets : ConnectCallback(s)
  \/ \E s \in Sockets : ConnectTimeout(s)
  \/ \E s \in Sockets : SocketError(s)
  \/ \E s \in Sockets : SocketClose(s)
  \/ \E c \in Callers : BatchRead(c)
  \/ \E c \in Callers : BatchWrite(c)
  \/ \E c \in Callers : ReadRegister(c)
  \/ \E c \in Callers : WriteRegister(c)
  \/ \E c \in Callers : Resume(c)
  \/ \E id \in Requests : Timeout(id)
  \/ \E id \in Requests : \E failed \in BOOLEAN : WriteCallback(id, failed)
  \/ \E s \in Sockets : \E frame \in PeerFrames : PeerRespond(s, frame)
  \/ \E s \in Sockets : \E n \in ChunkSizes(Len(inflight[s])) : Data(s, n)

Spec == Init /\ [][Next]_vars

\* a timer that stays armed fires, and a continuation that is queued runs
Fairness ==
  /\ \A id \in Requests : WF_vars(Timeout(id))
  /\ \A c \in Callers : WF_vars(Resume(c))

FairSpec == Spec /\ Fairness

(***************************************************************************)
(* The same object with a peer that answers with the good response or with *)
(* a frame too short to hold an end code, and with callers that also pass  *)
(* readRegister a device name the table inherits.                          *)
(***************************************************************************)
NextShort ==
  \/ Connect
  \/ Disconnect
  \/ \E s \in Sockets : ConnectCallback(s)
  \/ \E s \in Sockets : ConnectTimeout(s)
  \/ \E s \in Sockets : SocketError(s)
  \/ \E s \in Sockets : SocketClose(s)
  \/ \E c \in Callers : BatchRead(c)
  \/ \E c \in Callers : BatchWrite(c)
  \/ \E c \in Callers : ReadRegisterOf(c, RegisterDevices)
  \/ \E c \in Callers : WriteRegister(c)
  \/ \E c \in Callers : Resume(c)
  \/ \E id \in Requests : Timeout(id)
  \/ \E id \in Requests : \E failed \in BOOLEAN : WriteCallback(id, failed)
  \/ \E s \in Sockets : \E frame \in ShortResponses \cup {GoodResponse} :
       PeerRespond(s, frame)
  \/ \E s \in Sockets : \E n \in ChunkSizes(Len(inflight[s])) : Data(s, n)

SpecShort == Init /\ [][NextShort]_vars

(***************************************************************************)
(* The reassembler alone: handleResponse is fed a stream of frames in      *)
(* chunks of every length, and cleanup may flush the buffer in between.    *)
(* rx.stream is what is still to feed, rx.fed what was fed since the last  *)
(* cleanup, rx.frames the frames the stream was made of, rx.out the frames *)
(* extracted since the last cleanup, rx.clean whether no cleanup happened. *)
(***************************************************************************)
\* frames of 13, 14, 15 and 19 bytes
RxFrames ==
  {MkResponse(ResponseSubheader, <<>>), MkResponse(ResponseSubheader, <<7>>),
   PlcErrorResponse, GoodResponse}

RECURSIVE Concat(_)
Concat(frames) ==
  IF frames = <<>> THEN <<>> ELSE Head(frames) \o Concat(Tail(frames))

InitRx ==
  /\ plcType = DefaultPlcType
  /\ frameOption = DefaultFrame
  /\ op = NoCall
  /\ isConnected = TRUE
  /\ socket = 1
  /\ responseBuffer = EmptyBuffer
  /\ pendingRequests = <<>>
  /\ requestCounter = 0
  /\ timers = {}
  /\ connectTimers = {}
  /\ outcome = [r \in Requests |-> Unsettled]
  /\ calls = [r \in Requests |-> 0]
  /\ sockState = [s \in Sockets |-> IF s = 1 THEN "open" ELSE "unused"]
  /\ wire = [s \in Sockets |-> <<>>]
  /\ writeCb = {}
  /\ inflight = [s \in Sockets |-> <<>>]
  /\ inflightTag = [s \in Sockets |-> <<>>]
  /\ callers = [c \in Callers |-> IdleCaller]
  /\ bufferTag = <<>>
  /\ delivered = [r \in Requests |-> NotDelivered]
  /\ written = [r \in Requests |-> <<>>]
  /\ \E frames \in UNION {[1..n -> RxFrames] : n \in 1..MaxRxFrames} :
       rx = [RxIdle EXCEPT !.stream = Concat(frames), !.frames = frames]

\* the 'data' handler with the next n bytes of the stream
Feed(n) ==
  /\ n \in 1..Len(rx.stream)
  /\ LET chunk == Subarray(rx.stream, 0, n)
         st == handleResponse(State, chunk, [i \in 1..n |-> 0])
     IN  /\ Becomes(st)
         /\ rx' = [rx EXCEPT !.stream = Subarray(@, n, Len(rx.stream)),
                             !.fed = @ \o chunk,
                             !.out = @ \o st.frames]
  /\ UNCHANGED <<options, op, isConnected, socket, requestCounter, connectTimers,
                 callers, written, network>>

\* cleanup() runs once, after some bytes were fed
Flush ==
  /\ rx.clean
  /\ rx.fed # <<>>
  /\ isConnected' = FALSE
  /\ Becomes(cleanup(State))
  /\ rx' = [rx EXCEPT !.fed = <<>>, !.out = <<>>, !.clean = FALSE]
  /\ UNCHANGED <<options, op, socket, requestCounter, connectTimers, callers,
                 written, network>>

NextRx ==
  \/ \E n \in 1..Len(rx.stream) : Feed(n)
  \/ Flush

SpecRx == InitRx /\ [][NextRx]_vars

(***************************************************************************)
(* The functions alone: the codec, the builder and the validator are       *)
(* called with arguments drawn from the sets below, for every series and   *)
(* every frame option; op records the call and what it returned or threw.  *)
(***************************************************************************)
\* the keys of DEVICE_CODES, character by character
RecognizedDevices ==
  {<<"D">>, <<"R">>, <<"Z", "R">>, <<"M">>, <<"X">>, <<"Y">>, <<"B">>,
   <<"F">>, <<"V">>, <<"S">>, <<"S", "S">>, <<"S", "C">>, <<"S", "B">>,
   <<"D", "X">>, <<"D", "Y">>, <<"T">>, <<"S", "T">>, <<"C">>, <<"T", "C">>,
   <<"T", "S">>, <<"T", "N">>, <<"C", "N">>, <<"C", "S">>, <<"C", "C">>,
   <<"W">>, <<"S", "W">>, <<"R", "D">>, <<"S", "D">>, <<"Z">>}

\* the devices passed: the recognized ones, one that is not in the table
\* and one without a letter
FnDevices == RecognizedDevices \cup {<<"Q">>, <<"7">>}

\* the addresses passed: small ones, and the ends of the three-byte range
FnAddresses == {0, 9, 10, 100, 255, 65536, 16777215, 16777216}

\* the counts of a read and the values of a write
FnCounts == {1, 2, 960, 65535}
FnValues == {<<-1>>, <<-32768, 32767>>, <<0, 1, 2>>, <<32768>>}

\* the responses validated: four subheaders, and bodies without a status,
\* with a status, and with an even or an odd number of data bytes
FnSubheaders == {ResponseSubheader, 53248, 21504, 20480}
FnBodies ==
  {<<>>, <<0>>, <<0, 0>>, <<49, 64>>, <<0, 0, 57>>, <<0, 0, 57, 48>>,
   <<0, 0, 57, 48, 254>>, <<0, 0, 57, 48, 254, 255>>,
   <<0, 0, 1, 0, 0, 128, 255, 127>>, <<1, 0, 57, 48>>}
FnResponses == {MkResponse(sh, body) : sh \in FnSubheaders, body \in FnBodies}

InitFn ==
  /\ plcType \in PlcTypes
  /\ frameOption \in FrameVariants
  /\ op = NoCall
  /\ isConnected = FALSE
  /\ socket = 0
  /\ responseBuffer = EmptyBuffer
  /\ pendingRequests = <<>>
  /\ requestCounter = 0
  /\ timers = {}
  /\ connectTimers = {}
  /\ outcome = [r \in Requests |-> Unsettled]
  /\ calls = [r \in Requests |-> 0]
  /\ sockState = [s \in Sockets |-> "unused"]
  /\ wire = [s \in Sockets |-> <<>>]
  /\ writeCb = {}
  /\ inflight = [s \in Sockets |-> <<>>]
  /\ inflightTag = [s \in Sockets |-> <<>>]
  /\ callers = [c \in Callers |-> IdleCaller]
  /\ bufferTag = <<>>
  /\ delivered = [r \in Requests |-> NotDelivered]
  /\ written = [r \in Requests |-> <<>>]
  /\ rx = RxIdle

\* what makeDeviceData(device, address) throws, "none" when it returns
DeviceError(series, device, address) ==
  IF DeviceDataError(device) # "none" THEN DeviceDataError(device)
  ELSE IF ~DeviceNumInRange(series,
            ParseDigits(address,
                        getDeviceBase(JoinChars(MatchNonDigits(device)))))
  THEN "RangeError"
  ELSE "none"

\* the first value of a write that encodeValue(value, 'short', true) refuses
ValuesInRange(values) ==
  \A i \in 1..Len(values) : EncodeInRange(values[i], "short", TRUE)

\* what a call of a function leaves alone: all but op
object ==
  <<options, isConnected, socket, requestCounter, connectTimers, callers,
    written, rx, correlator, network>>

\* makeDeviceData(device, address)
CallMakeDeviceData(device, address) ==
  LET error == DeviceError(plcType, device, address)
  IN  /\ op = NoCall
      /\ op' = [NoCall EXCEPT
                !.fn = "makeDeviceData", !.device = device,
                !.address = address, !.error = error,
                !.bytes = IF error = "none"
                          THEN makeDeviceData(plcType, device, address)
                          ELSE <<>>]
      /\ UNCHANGED object

\* create4EReadFrame(device, address, count)
CallCreate4EReadFrame(device, address, count) ==
  LET error ==
        IF DeviceError(plcType, device, address) # "none"
        THEN DeviceError(plcType, device, address)
        ELSE IF ~EncodeInRange(count, "short", FALSE) THEN "RangeError"
        ELSE "none"
  IN  /\ op = NoCall
      /\ op' = [NoCall EXCEPT
                !.fn = "create4EReadFrame", !.device = device,
                !.address = address, !.count = count, !.error = error,
                !.bytes = IF error = "none"
                          THEN create4EReadFrame(plcType, device, address, count)
                          ELSE <<>>]
      /\ UNCHANGED object

\* create4EWriteFrame(device, address, values)
CallCreate4EWriteFrame(device, address, values) ==
  LET error ==
        IF DeviceError(plcType, device, address) # "none"
        THEN DeviceError(plcType, device, address)
        ELSE IF ~ValuesInRange(values) THEN "RangeError"
        ELSE "none"
  IN  /\ op = NoCall
      /\ op' = [NoCall EXCEPT
                !.fn = "create4EWriteFrame", !.device = device,
                !.address = address, !.values = values, !.error = error,
                !.bytes = IF error = "none"
                          THEN create4EWriteFrame(plcType, device, address, values)
                          ELSE <<>>]
      /\ UNCHANGED object

\* validateResponse(response)
CallValidateResponse(response) ==
  /\ op = NoCall
  /\ op' = [NoCall EXCEPT
              !.fn = "validateResponse", !.response = response,
              !.error = validateResponse(response).kind,
              !.plcErrorCode = validateResponse(response).plcErrorCode]
  /\ UNCHANGED object

\* parseReadResponse(response): it validates the response first
CallParseReadResponse(response) ==
  LET error == validateResponse(response)
  IN  /\ op = NoCall
      /\ op' = [NoCall EXCEPT
                !.fn = "parseReadResponse", !.response = response,
                !.error = error.kind, !.plcErrorCode = error.plcErrorCode,
                !.decoded = IF error = NoError
                            THEN parseReadResponse(response)
                            ELSE <<>>]
      /\ UNCHANGED object

\* two frames of the builders, for the series of the object
FnFrames ==
  {create4EReadFrame(plcType, <<"D">>, 100, 1),
   create4EWriteFrame(plcType, <<"W">>, 255, <<0, 1, 2>>)}

\* handleResponse(data), data being the frame the builder has just returned,
\* alone or before or after another built frame
FeedBuilt(other, builtFirst) ==
  /\ op.fn \in {"create4EReadFrame", "create4EWriteFrame"}
  /\ op.error = "none"
  /\ rx = RxIdle
  /\ LET frames == IF other = <<>> THEN <<op.bytes>>
                   ELSE IF builtFirst THEN <<op.bytes, other>>
                   ELSE <<other, op.bytes>>
         data == Concat(frames)
         st == handleResponse(State, data, [i \in 1..Len(data) |-> 0])
     IN  /\ Becomes(st)
         /\ rx' = [RxIdle EXCEPT !.frames = frames, !.fed = data,
                                 !.out = st.frames]
  /\ UNCHANGED <<options, op, isConnected, socket, requestCounter,
                 connectTimers, callers, written, network>>

NextFn ==
  \/ \E d \in FnDevices, a \in FnAddresses : CallMakeDeviceData(d, a)
  \/ \E d \in FnDevices, a \in FnAddresses, n \in FnCounts :
       CallCreate4EReadFrame(d, a, n)
  \/ \E d \in FnDevices, a \in FnAddresses, v \in FnValues :
       CallCreate4EWriteFrame(d, a, v)
  \/ \E r \in FnResponses : CallValidateResponse(r)
  \/ \E r \in FnResponses : CallParseReadResponse(r)
  \/ \E other \in FnFrames \cup {<<>>}, builtFirst \in BOOLEAN :
       FeedBuilt(other, builtFirst)

SpecFn == InitFn /\ [][NextFn]_vars

(***************************************************************************)
(* The claims.                                                             *)
(***************************************************************************)
\* the frames of a list that lie wholly within its first n bytes
RECURSIVE WholeFrames(_, _)
WholeFrames(frames, n) ==
  IF frames = <<>> \/ Len(Head(frames)) > n THEN <<>>
  ELSE <<Head(frames)>> \o WholeFrames(Tail(frames), n - Len(Head(frames)))

\* C7: however a stream of complete frames is split into chunks, the frames
\* extracted are the frames of the stream that have wholly arrived, the
\* same bytes in the same order, and once the whole stream is fed they are
\* all its frames and the buffer is empty.
C7_ChunkingIndependent ==
  rx.clean =>
    /\ rx.out = WholeFrames(rx.frames, Len(rx.fed))
    /\ rx.stream = <<>> => (rx.out = rx.frames /\ responseBuffer = <<>>)

\* two different frames were fed and extracted
C7_Witness ==
  /\ rx.clean
  /\ rx.stream = <<>>
  /\ Len(rx.out) = 2
  /\ rx.out[1] # rx.out[2]
  /\ responseBuffer = <<>>

\* a buffer that holds no complete frame: shorter than 13 bytes, or than 13
\* plus the length it declares at offset 11
HoldsNoFrame(buffer) ==
  \/ Len(buffer) < 13
  \/ Len(buffer) < 13 + buffer[12] + 256 * buffer[13]

C8_Retained ==
  /\ responseBuffer = SubSeq(rx.fed, Len(Concat(rx.out)) + 1, Len(rx.fed))
  /\ HoldsNoFrame(responseBuffer)

C8_OnlyAppends ==
  LET chunk == SubSeq(rx.fed', Len(rx.fed) + 1, Len(rx.fed'))
  IN  (Len(rx.fed') > Len(rx.fed) /\ HoldsNoFrame(responseBuffer \o chunk))
        => (rx.out' = rx.out /\ responseBuffer' = responseBuffer \o chunk)

\* C8: after every chunk the buffer is what was received since the last
\* cleanup less the frames extracted from it, and holds no complete frame;
\* a chunk that completes no frame extracts none and is only appended.
C8_BufferIsUnextractedSuffix == []C8_Retained /\ [][C8_OnlyAppends]_vars

\* a frame was extracted and the buffer keeps a header whose data is short
C8_Witness ==
  /\ Len(rx.out) = 1
  /\ Len(responseBuffer) >= 13
  /\ responseBuffer = SubSeq(rx.fed, Len(rx.out[1]) + 1, Len(rx.fed))

\* the requests in the pending set
Pending == {pendingRequests[i] : i \in 1..Len(pendingRequests)}

\* C1: on one connection, a frame processResponse delivers to a request is
\* the peer's answer to that very request.
C1_AnswersOwnRequest ==
  NumSockets <= 1 =>
    \A id \in Requests :
      delivered[id] # NotDelivered => delivered[id].answers = id

\* C2: no request has its resolve or reject continuation called twice.
C2_ContinuationCalledOnce == \A id \in Requests : calls[id] <= 1

\* C3: at most one request is outstanding.
C3_OneOutstanding == Len(pendingRequests) <= 1

\* the step of disconnect() that closes the transport
Disconnects == socket # 0 /\ isConnected /\ Disconnect

C4_Closed ==
  /\ ~isConnected'
  /\ responseBuffer' = <<>>
  /\ pendingRequests' = <<>>
  /\ \A id \in Pending :
       /\ outcome'[id].kind = "ConnectionClosed"
       /\ calls'[id] = calls[id] + 1

\* C4: when disconnect() closes the transport and when a socket emits
\* 'close', every outstanding request is rejected with ConnectionClosed and
\* the object is left not connected, with an empty buffer and pending set.
C4_CloseRejectsAll ==
  [][(Disconnects \/ \E s \in Sockets : SocketClose(s)) => C4_Closed]_vars

\* two outstanding requests were rejected by a close
C4_Witness ==
  /\ ~isConnected
  /\ pendingRequests = <<>>
  /\ \E a, b \in Requests :
       /\ a # b
       /\ outcome[a].kind = "ConnectionClosed"
       /\ outcome[b].kind = "ConnectionClosed"
       /\ written[a] # <<>> /\ written[b] # <<>>

\* C5: with timers that fire, every pending request leaves the pending set:
\* at every moment each request is, or will later be, out of it (which is
\* what (id \in Pending) ~> (id \notin Pending) says).
C5_PendingLeaves ==
  \A id \in Requests : []<>(id \notin Pending)

\* two requests were registered and both have left the pending set, one of
\* them by its timer
C5_Witness ==
  /\ requestCounter = 2
  /\ pendingRequests = <<>>
  /\ outcome[1].kind = "RequestTimeout"
  /\ outcome[2] # Unsettled

C6_TimedOut(id) ==
  /\ id \in Pending
  /\ pendingRequests' = SelectSeq(pendingRequests, LAMBDA r : r # id)
  /\ Len(pendingRequests) = 1 => pendingRequests' = <<>>
  /\ outcome'[id].kind = "RequestTimeout"
  /\ calls'[id] = 1
  /\ \A other \in Requests \ {id} :
       /\ outcome'[other] = outcome[other]
       /\ calls'[other] = calls[other]
       /\ other \in timers' <=> other \in timers
  /\ responseBuffer' = responseBuffer
  /\ isConnected' = isConnected

\* C6: a timer that fires removes its own request from the pending set and
\* rejects it with RequestTimeout; the other pending requests, the buffer
\* and the connected flag stay as they are.
C6_TimeoutRemovesOwnEntry ==
  [][\A id \in Requests : Timeout(id) => C6_TimedOut(id)]_vars

\* a request timed out while another stays pending
C6_Witness ==
  \E a, b \in Requests :
    /\ outcome[a].kind = "RequestTimeout"
    /\ pendingRequests = <<b>>
    /\ b \in timers

\* a frame with the response subheader and a status code that is not zero
HasPlcStatus(frame) ==
  /\ Len(frame) >= 15
  /\ 256 * frame[1] + frame[2] = 54272
  /\ frame[14] + 256 * frame[15] # 0

\* C9: the request a frame with a non-zero status code is delivered to is
\* rejected with PlcError carrying that code, and the operation awaiting it
\* throws that error and returns no values.
C9_PlcErrorCarriesCode ==
  \A id \in Requests :
    (delivered[id] # NotDelivered /\ HasPlcStatus(delivered[id].frame)) =>
      /\ outcome[id].kind = "PlcError"
      /\ outcome[id].plcErrorCode =
           delivered[id].frame[14] + 256 * delivered[id].frame[15]
      /\ outcome[id].response = <<>>
      /\ \A c \in Callers :
           (callers[c].req = id /\ callers[c].pc # "await") =>
             /\ callers[c].pc = "rejected"
             /\ callers[c].error = outcome[id]
             /\ callers[c].results = EmptyResult

\* a read was answered with status 0x4031 and threw PlcError 0x4031
C9_Witness ==
  \E id \in Requests : \E c \in Callers :
    /\ delivered[id].frame = PlcErrorResponse
    /\ callers[c].req = id
    /\ callers[c].kind = "read"
    /\ callers[c].pc = "rejected"
    /\ callers[c].error.kind = "PlcError"
    /\ callers[c].error.plcErrorCode = 16433

\* a frame that validation fails: another subheader, or a non-zero status
FailsValidation(frame) ==
  \/ 256 * frame[1] + frame[2] # 54272
  \/ HasPlcStatus(frame)

C10_DataStep(s, n) ==
  LET newly == {id \in Requests : delivered'[id] # delivered[id]}
      all == responseBuffer \o SubSeq(inflight[s], 1, n)
  IN  /\ isConnected' = isConnected
      /\ socket' = socket
      /\ sockState' = sockState
      /\ pendingRequests' = SelectSeq(pendingRequests, LAMBDA r : r \notin newly)
      /\ newly = {pendingRequests[i] : i \in 1..Cardinality(newly)}
      /\ \A id \in newly :
           /\ calls'[id] = 1
           /\ FailsValidation(delivered'[id].frame) =>
                outcome'[id].kind \in {"PlcError", "InvalidSubheader"}
      /\ \A id \in Requests \ newly :
           /\ outcome'[id] = outcome[id]
           /\ calls'[id] = calls[id]
           /\ id \in timers' <=> id \in timers
      /\ responseBuffer' =
           SubSeq(all, Len(all) - Len(responseBuffer') + 1, Len(all))

\* C10: a 'data' event leaves the connected flag and the sockets as they
\* are; each frame it completes is delivered to the oldest pending request,
\* which is rejected when the frame fails validation, and no other request,
\* pending or not, is touched; the buffer keeps the bytes that follow.
C10_FailureKeepsConnection ==
  [][\A s \in Sockets : \A n \in 1..Len(inflight[s]) :
       Data(s, n) => C10_DataStep(s, n)]_vars

\* on one connection a request was rejected by a PlcError and a later one
\* was sent and resolved
C10_Witness ==
  /\ NumSockets = 1
  /\ isConnected
  /\ outcome[1].kind = "PlcError"
  /\ outcome[2].kind = "resolved"
  /\ delivered[2].answers = 2

\* the leading two bytes of a frame, most significant first
Marker(response) == 256 * response[1] + response[2]

\* the response subheaders of the MC protocol: 0xD000 answers a 3E frame,
\* 0xD400 a 4E frame
ExpectedResponseMarker == [f \in {"3E", "4E"} |-> IF f = "3E" THEN 53248 ELSE 54272]

\* C11: whichever frame variant the connection is configured with, a
\* response is rejected with InvalidSubheader exactly when its leading two
\* bytes differ from the response marker of that variant.
C11_SubheaderOfConfiguredVariant ==
  op.fn = "validateResponse" =>
    (op.error = "InvalidSubheader"
       <=> Marker(op.response) # ExpectedResponseMarker[frameOption])

\* a response with the response subheader and a status code of zero
ZeroStatus(response) ==
  /\ Len(response) >= 15
  /\ Marker(response) = 54272
  /\ response[14] = 0 /\ response[15] = 0

\* C12: a read response with status zero and an odd number of bytes after
\* offset 15 fails with MalformedResponse and yields no values.
C12_OddPayloadIsMalformed ==
  (/\ op.fn = "parseReadResponse"
   /\ ZeroStatus(op.response)
   /\ (Len(op.response) - 15) % 2 = 1) =>
    (op.error = "MalformedResponse" /\ op.decoded = <<>>)

C13_Discards(s, n) ==
  pendingRequests = <<>> =>
    /\ HoldsNoFrame(responseBuffer')
    /\ \E k \in 0..(Len(responseBuffer) + n) :
         responseBuffer' =
           SubSeq(responseBuffer \o SubSeq(inflight[s], 1, n), k + 1,
                  Len(responseBuffer) + n)
    /\ calls' = calls
    /\ outcome' = outcome
    /\ delivered' = delivered
    /\ pendingRequests' = <<>>
    /\ timers' = timers
    /\ requestCounter' = requestCounter
    /\ isConnected' = isConnected

\* C13: a 'data' event that finds no request pending consumes the frames it
\* completes and calls no continuation; the pending set, the request
\* counter and the connected flag stay as they are.  No complete frame is
\* ever left in the buffer, so a frame is never delivered to a request sent
\* after it arrived.
C13_UnclaimedFrameDiscarded ==
  /\ []HoldsNoFrame(responseBuffer)
  /\ [][\A s \in Sockets : \A n \in 1..Len(inflight[s]) :
          Data(s, n) => C13_Discards(s, n)]_vars

\* the only request timed out, the peer's answer to it has since arrived on
\* the open socket, and it was delivered to no request
C13_Witness ==
  /\ requestCounter = 1
  /\ outcome[1].kind = "RequestTimeout"
  /\ delivered[1] = NotDelivered
  /\ socket = 1 /\ sockState[1] = "open" /\ NumSockets = 1
  /\ wire[1] = <<>> /\ writeCb = {} /\ inflight[1] = <<>>
  /\ responseBuffer = <<>>
  /\ pendingRequests = <<>>

\* caller c calls a read or write operation in this step
Calls(c) == callers[c].pc = "idle" /\ callers'[c].pc # "idle"

\* the batch of caller c, its request answered, turns to its next entry
TurnsToNextEntry(c) ==
  /\ callers[c].pc = "await"
  /\ callers'[c] # callers[c]
  /\ outcome[callers[c].req].kind = "resolved"
  /\ Len(callers[c].items) > 1

C14_Refused(c) ==
  /\ callers'[c].pc = "rejected"
  /\ callers'[c].error.kind = "NotConnected"
  /\ sending' = sending

C14_EntryRefused(c) ==
  /\ callers'[c].pc = "rejected"
  /\ FrameError(plcType, callers[c].kind, callers[c].items[2]) = "none"
       => callers'[c].error.kind = "NotConnected"
  /\ sending' = sending

BodyLength(call, series) ==
  2 + 2 + (IF series = "iQ-R" THEN 4 + 2 ELSE 3 + 1) + 2
    + (IF call.fn = "create4EWriteFrame" THEN 2 * Len(call.values) ELSE 0)

Built == op.fn \in {"create4EReadFrame", "create4EWriteFrame"} /\ op.error = "none"

\* C15: a built read or write frame is 13 + 2 + bodyLength bytes long, and
\* its little-endian length field at offset 11 holds 2 + bodyLength.
C15_LengthFieldCoversTimerAndBody ==
  Built =>
    /\ Len(op.bytes) = 13 + 2 + BodyLength(op, plcType)
    /\ op.bytes[12] + 256 * op.bytes[13] = 2 + BodyLength(op, plcType)

\* an iQ-R write of three values was built: a body of 18 bytes
C15_Witness ==
  /\ Built
  /\ op.fn = "create4EWriteFrame"
  /\ plcType = "iQ-R"
  /\ Len(op.values) = 3
  /\ Len(op.bytes) = 33
  /\ op.bytes[12] = 20

\* the little-endian number in bytes from..to of a buffer
RECURSIVE DecodeLE(_, _, _)
DecodeLE(bytes, from, to) ==
  IF from > to THEN 0 ELSE bytes[from] + 256 * DecodeLE(bytes, from + 1, to)

\* the bytes of the device number in the layout of a series
NumberWidth(series) == IF series = "iQ-R" THEN 4 ELSE 3

\* the offsets the layout of a series can hold (all of FnAddresses are
\* below 2^32)
Representable(address, series) ==
  address >= 0 /\ (series = "iQ-R" \/ address < 16777216)

\* C16: for a recognized device and an offset the layout can hold,
\* makeDeviceData returns bytes that decode, under the same layout, to the
\* device's code in the table and to the offset it was given.
C16_DeviceAddressRoundTrip ==
  (/\ op.fn = "makeDeviceData"
   /\ op.device \in RecognizedDevices
   /\ Representable(op.address, plcType)) =>
    /\ op.error = "none"
    /\ Len(op.bytes) = IF plcType = "iQ-R" THEN 6 ELSE 4
    /\ DecodeLE(op.bytes, 1, NumberWidth(plcType)) = op.address
    /\ DecodeLE(op.bytes, NumberWidth(plcType) + 1, Len(op.bytes))
         = DEVICE_CODES[JoinChars(op.device)]

\* the operation of the caller is writeRegister
SingleWrite(me) == me.single /\ me.kind = "write"

\* the body of a frame, from offset 15, decodes to the batch-write command
\* 0x1401, the number and the code of the device in the layout of the
\* series, a count of one and the word v modulo 2^16
C17_Decodes(bytes, arg) ==
  LET number == 19 + NumberWidth(plcType)
  IN  /\ Len(bytes) = number + (IF plcType = "iQ-R" THEN 2 ELSE 1) + 4
      /\ DecodeLE(bytes, 16, 17) = 5121
      /\ DecodeLE(bytes, 20, number) = arg.address
      /\ DecodeLE(bytes, number + 1, Len(bytes) - 4)
           = DEVICE_CODES[JoinChars(arg.device)]
      /\ DecodeLE(bytes, Len(bytes) - 3, Len(bytes) - 2) = 1
      /\ DecodeLE(bytes, Len(bytes) - 1, Len(bytes)) = arg.value % 65536

\* the request of a writeRegister carries the frame of its arguments, and
\* once a zero-status response was delivered to it the operation has
\* resolved, or is about to, with no value
C17_Frame ==
  \A c \in Callers :
    (SingleWrite(callers[c]) /\ callers[c].req # 0) =>
      LET me == callers[c]
      IN  /\ C17_Decodes(written[me.req], me.arg)
          /\ ZeroStatus(delivered[me.req].frame) =>
               /\ outcome[me.req].kind = "resolved"
               /\ me.pc \in {"await", "resolved"}
               /\ me.value = <<>>

\* writeRegister, called on a connected object with a device of the table,
\* registers one request and writes once; nothing more is written for it
C17_OneFrame ==
  \A c \in Callers :
    /\ (/\ Calls(c)
        /\ SingleWrite(callers'[c])
        /\ getIsConnected
        /\ JoinChars(callers'[c].arg.device) \in DOMAIN DEVICE_CODES) =>
         /\ callers'[c].pc = "await"
         /\ requestCounter' = requestCounter + 1
         /\ callers'[c].req = requestCounter'
         /\ writeCb' = writeCb \cup {requestCounter'}
         /\ \A id \in Requests \ {requestCounter'} : written'[id] = written[id]
    /\ (/\ SingleWrite(callers[c])
        /\ callers'[c] # callers[c]) =>
         /\ sending' = sending
         /\ callers'[c].pc \in {"resolved", "rejected"}

C18_Value(response, i) ==
  LET u == response[15 + 2 * i + 1] + 256 * response[15 + 2 * i + 2]
  IN  IF u >= 32768 THEN u - 65536 ELSE u

\* the read of caller c goes on with a zero-status response of 2*N bytes
\* of payload
C18_Decoding(c) ==
  /\ callers[c].pc = "await"
  /\ callers[c].kind = "read"
  /\ callers'[c] # callers[c]
  /\ outcome[callers[c].req].kind = "resolved"
  /\ ZeroStatus(outcome[callers[c].req].response)
  /\ (Len(outcome[callers[c].req].response) - 15) % 2 = 0

C18_Decoded(c) ==
  LET me == callers[c]
      response == outcome[me.req].response
      N == (Len(response) - 15) \div 2
      entry == Head(me.items)
      keys == {ResultKey(entry, i) : i \in 0..(N - 1)}
  IN  /\ callers'[c].pc # "rejected" =>
           /\ Cardinality(keys) = N
           /\ DOMAIN callers'[c].results = DOMAIN me.results \cup keys
           /\ \A i \in 0..(N - 1) :
                callers'[c].results[ResultKey(entry, i)] = C18_Value(response, i)
           /\ \A k \in DOMAIN me.results \ keys :
                callers'[c].results[k] = me.results[k]
      /\ (me.single /\ N >= 1) =>
           /\ callers'[c].pc = "resolved"
           /\ callers'[c].value = <<C18_Value(response, 0)>>

\* C18: a zero-status response with 2*N bytes after offset 15 yields
\* exactly N values, the i-th the signed 16-bit little-endian reading of
\* the i-th byte pair; a batch read stores the i-th under the key
\* <device><offset+i>, and readRegister resolves to the first.
C18_ReadDecodesInOrder ==
  [][\A c \in Callers : C18_Decoding(c) => C18_Decoded(c)]_vars

\* readRegister('D', 100) resolved to 12345, the response's second word
\* being -2
C18_Witness ==
  \E c \in Callers :
    /\ callers[c].single /\ callers[c].kind = "read"
    /\ callers[c].pc = "resolved"
    /\ callers[c].value = <<12345>>
    /\ DOMAIN callers[c].results = {"D100", "D101"}
    /\ callers[c].results["D101"] = -2

\* how often request id stands on the wire of socket s
C19_OnWire(wires, s, id) ==
  Cardinality({i \in 1..Len(wires[s]) : wires[s][i] = id})

\* a frame once written is not written again: the requests made so far keep
\* their frame, their socket.write is not called again and they do not
\* come onto a wire again
C19_WrittenOnce ==
  /\ requestCounter' \in {requestCounter, requestCounter + 1}
  /\ \A id \in 1..requestCounter :
       /\ written'[id] = written[id]
       /\ id \in writeCb' => id \in writeCb
       /\ \A s \in Sockets : C19_OnWire(wire', s, id) <= C19_OnWire(wire, s, id)

\* a request is made by one caller, for the first entry of an operation it
\* calls or for the next entry of a batch whose request has resolved
C19_NextAfterSuccess ==
  requestCounter' # requestCounter =>
    \E c \in Callers :
      /\ \A d \in Callers \ {c} : callers'[d] = callers[d]
      /\ callers'[c].pc = "await"
      /\ callers'[c].req = requestCounter'
      /\ \/ Calls(c)
         \/ /\ callers[c].pc = "await"
            /\ outcome[callers[c].req].kind = "resolved"
            /\ callers'[c].items = Tail(callers[c].items)

\* a batch whose request failed throws that error and sends nothing, and an
\* operation that has returned or thrown does nothing more
C19_FailureEnds ==
  \A c \in Callers :
    /\ (/\ callers[c].pc = "await"
        /\ callers'[c] # callers[c]
        /\ outcome[callers[c].req].kind # "resolved") =>
         /\ callers'[c].pc = "rejected"
         /\ callers'[c].error = outcome[callers[c].req]
         /\ sending' = sending
    /\ callers[c].pc \in {"resolved", "rejected"} => callers'[c] = callers[c]

\* C19: no frame is written twice; the frame of the next entry of a batch
\* is written only after the request of the entry before it has resolved;
\* when a request fails the batch rejects with its error and writes no
\* further frame.
C19_NoAutomaticRetry ==
  [][C19_WrittenOnce /\ C19_NextAfterSuccess /\ C19_FailureEnds]_vars

\* a batch of two entries was rejected with the PLC's error to its first
\* request, the only request ever made
C19_Witness ==
  \E c \in Callers :
    /\ ~callers[c].single
    /\ callers[c].pc = "rejected"
    /\ callers[c].error.kind = "PlcError"
    /\ callers[c].req = 1
    /\ requestCounter = 1
    /\ writeCb = {}
    /\ \A d \in Callers \ {c} : callers[d].pc = "idle"

\* the device names a type that is not in the device-code table
C20_NotInTable(device) ==
  /\ MatchNonDigits(device) # <<>>
  /\ JoinChars(MatchNonDigits(device)) \notin DOMAIN DEVICE_CODES

\* caller c, the object being connected, calls readRegister or
\* writeRegister with such a device, or its batch turns to an entry with
\* such a device
C20_NamesUnknown(c) ==
  \/ /\ Calls(c)
     /\ getIsConnected
     /\ callers'[c].single
     /\ C20_NotInTable(callers'[c].arg.device)
  \/ /\ TurnsToNextEntry(c)
     /\ C20_NotInTable(callers[c].items[2].device)

\* C20: a read or write naming a device type that is not in the device-code
\* table fails with UnknownDeviceType; nothing is written, no request is
\* registered, the request counter does not advance, and the connection
\* state and the inbound buffer are unchanged.
C20_UnknownDeviceRefused ==
  [][\A c \in Callers :
       C20_NamesUnknown(c) =>
         /\ callers'[c].pc = "rejected"
         /\ callers'[c].error.kind = "UnknownDeviceType"
         /\ sending' = sending
         /\ UNCHANGED <<isConnected, socket, sockState, responseBuffer>>]_vars

\* readRegister('constructor', 100) awaits a request
C20_InheritedNameSent ==
  \E c \in Callers :
    /\ callers[c].single /\ callers[c].kind = "read"
    /\ JoinChars(callers[c].arg.device) \in InheritedNames
    /\ callers[c].pc = "await"
    /\ callers[c].req \in writeCb

\* C21: a request is resolved as successful only if the frame delivered to
\* it carries the response subheader and a status code field equal to
\* zero; a complete frame of 13 or 14 bytes never resolves a request.
C21_SuccessNeedsZeroStatus ==
  \A id \in Requests :
    outcome[id].kind = "resolved" =>
      /\ delivered[id] # NotDelivered
      /\ ZeroStatus(delivered[id].frame)

\* writeRegister has resolved on a frame of 13 bytes
C21_ShortFrameResolved ==
  \E c \in Callers :
    /\ SingleWrite(callers[c])
    /\ callers[c].pc = "resolved"
    /\ delivered[callers[c].req].frame \in ShortResponses
    /\ Len(delivered[callers[c].req].frame) = 13

\* an event of socket s, which is not the socket of the object any more
C22_SupersededEvent(s) ==
  /\ socket # 0
  /\ s # socket
  /\ \/ SocketClose(s)
     \/ SocketError(s)
     \/ \E n \in 1..Len(inflight[s]) : Data(s, n)

\* the requests written to the socket of the object and not yet answered
C22_OnCurrentSocket == {wire[socket][i] : i \in 1..Len(wire[socket])}

\* the connected flag, the inbound buffer and the requests sent on the
\* socket of the object are as before
C22_Untouched ==
  /\ isConnected' = isConnected
  /\ responseBuffer' = responseBuffer
  /\ \A id \in C22_OnCurrentSocket :
       /\ outcome'[id] = outcome[id]
       /\ id \in Pending => id \in {pendingRequests'[i] : i \in 1..Len(pendingRequests')}
       /\ id \in timers => id \in timers'

\* C22: a 'close', 'error' or 'data' event of a socket that connect() has
\* superseded does not mark the object not connected, does not flush or
\* extend its inbound buffer, and does not resolve or reject the requests
\* sent on the new socket.
C22_SupersededSocketIsIgnored ==
  [][\A s \in Sockets : C22_SupersededEvent(s) => C22_Untouched]_vars

\* connect() was called twice and both sockets opened; the first socket
\* closed, and the request written to the second, which is still open, was
\* rejected with it
C22_OldCloseRejectsNew ==
  /\ socket = 2
  /\ sockState = <<"closed", "open">>
  /\ ~isConnected
  /\ \E id \in C22_OnCurrentSocket : outcome[id].kind = "ConnectionClosed"

\* C23: a frame of create4EReadFrame or create4EWriteFrame, fed to the
\* reassembler alone or concatenated with another built frame, comes out
\* as exactly the frames that were built, in order, and no byte stays in
\* the buffer.
C23_BuilderAndReassemblerAgree ==
  rx.fed # <<>> =>
    /\ rx.out = rx.frames
    /\ responseBuffer = EmptyBuffer
    /\ \E i \in 1..Len(rx.out) : rx.out[i] = op.bytes

\* an iQ-R read and a write of three values, 27 and 33 bytes, were fed as
\* one chunk and came out as two frames
C23_Witness ==
  /\ plcType = "iQ-R"
  /\ op.fn = "create4EWriteFrame"
  /\ Len(op.values) = 3
  /\ Len(rx.fed) = 60
  /\ Len(rx.out) = 2
  /\ Len(rx.out[1]) = 27
  /\ rx.out[2] = op.bytes

\* the armed timers are those of the pending requests, whose ids are
\* distinct, increase in insertion order and do not exceed requestCounter
C24_TimersArePending ==
  /\ timers = Pending
  /\ Cardinality(Pending) = Len(pendingRequests)
  /\ \A i \in 1..Len(pendingRequests) :
       /\ pendingRequests[i] \in 1..requestCounter
       /\ \A j \in 1..Len(pendingRequests) :
            i < j => pendingRequests[i] < pendingRequests[j]

\* requestCounter never decreases, and a timer fires only for a request
\* that is pending, which it removes
C24_Step ==
  /\ requestCounter' >= requestCounter
  /\ \A id \in Requests :
       Timeout(id) =>
         /\ id \in Pending
         /\ id \notin {pendingRequests'[i] : i \in 1..Len(pendingRequests')}
         /\ id \notin timers'

\* C24: in every reachable state the armed request timers are exactly the
\* pending requests, so no timeout fires for a request that is not pending;
\* the pending ids are distinct, strictly increasing in insertion order and
\* at most requestCounter, which never decreases, also across disconnect
\* and reconnect.
C24_TimersMatchPending == []C24_TimersArePending /\ [][C24_Step]_vars

\* request 1 was rejected when its connection closed, and request 2, made
\* on the second socket, is pending with its timer armed
C24_Witness ==
  /\ socket = 2
  /\ isConnected
  /\ outcome[1].kind = "ConnectionClosed"
  /\ pendingRequests = <<2>>
  /\ timers = {2}
  /\ requestCounter = 2
====
